---- MODULE Spec2Model ----
(***************************************************************************)
(* A model of src/main.js: the construction of the planet systems          *)
(* (createPlanet, createOrbit, createRing), the per-call position sampler  *)
(* (updateSystemPosition) and the frame loop (animate).                    *)
(*                                                                         *)
(* JavaScript numbers are modelled as exact rationals extended with        *)
(* Infinity, -Infinity and NaN (no rounding, no negative zero).  Math.PI   *)
(* is the rational Pi below.  The geometry of an orbit is kept as the      *)
(* ordered sequence of its points, a point being named by its orbit and    *)
(* its index; its coordinates are not computed.                            *)
(***************************************************************************)
EXTENDS Integers, Sequences, FiniteSets, TLC

VARIABLES
    scene,      \* the objects added to the THREE.Scene
    systems,    \* name -> what createPlanet returned for it, as mutated since
    now,        \* the last value performance.now() returned, in ms
    pc,         \* the position of the animate callback
    frame,      \* number of renderer.render calls so far
    calls,      \* per system: the number of updateSystemPosition calls made on it
    lastCall,   \* per system: the arguments, clock reading and index of its last update
    rendered,   \* the transforms the renderer saw at its last render
    samples,    \* the (clock reading, index, position) triples of the sampled calls
    config      \* per system: the arguments createPlanet was called with

vars == <<scene, systems, now, pc, frame, calls, lastCall, rendered, samples, config>>

----------------------------------------------------------------------------
(* Bounds of the model *)

\* getPoints(Divisions) stands for getPoints(50000): the path has Divisions + 1 points
Divisions == 8
\* number of frames the loop is followed for
MaxFrames == 2
\* performance.now() returns a multiple of ClockStepMs, at most MaxClockSteps of them
ClockStepMs == 70000
MaxClockSteps == 2

----------------------------------------------------------------------------
(* JavaScript numbers *)

RECURSIVE GCD(_, _)
GCD(a, b) == IF b = 0 THEN a ELSE GCD(b, a % b)

Abs(i) == IF i < 0 THEN -i ELSE i

\* the finite number n/d, reduced, d > 0
Fin(n, d) ==
    LET g == GCD(Abs(n), Abs(d))
        s == IF d < 0 THEN -1 ELSE 1
    IN  [k |-> "fin", n |-> s * (n \div g), d |-> s * (d \div g)]

Int2Num(i) == [k |-> "fin", n |-> i, d |-> 1]
NaN == [k |-> "nan", n |-> 0, d |-> 1]
\* Infinity (s = 1) and -Infinity (s = -1)
Inf(s) == [k |-> "inf", n |-> s, d |-> 1]

Sign(x) == IF x.n > 0 THEN 1 ELSE IF x.n < 0 THEN -1 ELSE 0
IsFinite(x) == x.k = "fin"

\* x * y
Mul(x, y) ==
    IF x.k = "nan" \/ y.k = "nan" THEN NaN
    ELSE IF x.k = "inf" \/ y.k = "inf"
         THEN IF Sign(x) = 0 \/ Sign(y) = 0 THEN NaN ELSE Inf(Sign(x) * Sign(y))
    ELSE LET g1 == GCD(Abs(x.n), y.d)
             g2 == GCD(Abs(y.n), x.d)
         IN  IF x.n = 0 \/ y.n = 0 THEN Int2Num(0)
             ELSE Fin((x.n \div g1) * (y.n \div g2), (x.d \div g2) * (y.d \div g1))

\* x / y
Div(x, y) ==
    IF x.k = "nan" \/ y.k = "nan" THEN NaN
    ELSE IF x.k = "inf" THEN (IF y.k = "inf" THEN NaN
                              ELSE Inf(Sign(x) * (IF Sign(y) < 0 THEN -1 ELSE 1)))
    ELSE IF y.k = "inf" THEN Int2Num(0)
    ELSE IF y.n = 0 THEN (IF x.n = 0 THEN NaN ELSE Inf(Sign(x)))
    ELSE Mul(x, Fin(y.d, y.n))

\* x + y
Add(x, y) ==
    IF x.k = "nan" \/ y.k = "nan" THEN NaN
    ELSE IF x.k = "inf" THEN (IF y.k = "inf" /\ Sign(y) # Sign(x) THEN NaN ELSE x)
    ELSE IF y.k = "inf" THEN y
    ELSE LET g == GCD(x.d, y.d)
         IN  Fin(x.n * (y.d \div g) + y.n * (x.d \div g), (x.d \div g) * y.d)

Neg(x) == [x EXCEPT !.n = -x.n]
Sub(x, y) == Add(x, Neg(y))

\* x < y (false when either is NaN)
Less(x, y) ==
    IF x.k = "nan" \/ y.k = "nan" THEN FALSE
    ELSE IF x.k = "inf" THEN Sign(x) < 0 /\ ~(y.k = "inf" /\ Sign(y) < 0)
    ELSE IF y.k = "inf" THEN Sign(y) > 0
    ELSE Sign(Sub(x, y)) < 0

\* the integer part of a finite x, towards zero
Trunc(x) == IF x.n >= 0 THEN x.n \div x.d ELSE -((-x.n) \div x.d)

\* x % 1: the remainder has the sign of x; NaN for a non-finite x
Mod1(x) == IF x.k = "fin" THEN Sub(x, Int2Num(Trunc(x))) ELSE NaN

\* Math.floor(x)
Floor(x) == IF x.k = "fin" THEN Int2Num(x.n \div x.d) ELSE x

\* Math.sqrt(x) is NaN exactly for x < 0 (and for NaN)
SqrtIsNaN(x) == x.k = "nan" \/ Less(x, Int2Num(0))

\* Math.PI
Pi == Fin(22, 7)

\* converts an angle value in degrees to radians
degToRad(number) == Mul(number, Div(Pi, Int2Num(180)))

----------------------------------------------------------------------------
(* The values of the program text *)

\* a decimal literal: units / scale
Dec(units, scale) == Fin(units, scale)

\* the systems of lines 203-217, in the order animate updates them
Bodies == <<"mercury", "venus", "earth", "mars", "ceres",
            "jupiter", "saturn", "uranus", "neptune", "pluto">>
BodyNames == {Bodies[i] : i \in 1..Len(Bodies)}

\* the createPlanet calls: eccentricity (to four decimals: only the sign of
\* 1 - e*e is kept of it), axial tilt in degrees, whether ring radii are passed
PlanetTable ==
    [mercury |-> [e |-> Dec(2056, 10000), axialTilt |-> Dec(34, 1000),    ringRadii |-> FALSE],
     venus   |-> [e |-> Dec(68, 10000),   axialTilt |-> Dec(17736, 100),  ringRadii |-> FALSE],
     earth   |-> [e |-> Dec(167, 10000),  axialTilt |-> Dec(2344, 100),   ringRadii |-> FALSE],
     mars    |-> [e |-> Dec(934, 10000),  axialTilt |-> Dec(2519, 100),   ringRadii |-> FALSE],
     ceres   |-> [e |-> Dec(780, 10000),  axialTilt |-> Dec(4, 1),        ringRadii |-> FALSE],
     jupiter |-> [e |-> Dec(489, 10000),  axialTilt |-> Dec(313, 100),    ringRadii |-> FALSE],
     saturn  |-> [e |-> Dec(565, 10000),  axialTilt |-> Dec(2673, 100),   ringRadii |-> TRUE],
     uranus  |-> [e |-> Dec(472, 10000),  axialTilt |-> Dec(9777, 100),   ringRadii |-> FALSE],
     neptune |-> [e |-> Dec(87, 10000),   axialTilt |-> Dec(2832, 100),   ringRadii |-> FALSE],
     pluto   |-> [e |-> Dec(2488, 10000), axialTilt |-> Dec(11253, 100),  ringRadii |-> FALSE]]

\* the updateSystemPosition calls of animate: year (days), day (days)
UpdateTable ==
    [mercury |-> [orbitalPeriod |-> Dec(8797, 100),    rotationPeriod |-> Dec(586, 10)],
     venus   |-> [orbitalPeriod |-> Dec(22470, 100),   rotationPeriod |-> Dec(-243, 1)],
     earth   |-> [orbitalPeriod |-> Dec(36526, 100),   rotationPeriod |-> Dec(1, 1)],
     mars    |-> [orbitalPeriod |-> Dec(68698, 100),   rotationPeriod |-> Dec(103, 100)],
     ceres   |-> [orbitalPeriod |-> Dec(168214, 100),  rotationPeriod |-> Dec(38, 100)],
     jupiter |-> [orbitalPeriod |-> Dec(433259, 100),  rotationPeriod |-> Dec(41, 100)],
     saturn  |-> [orbitalPeriod |-> Dec(1085570, 100), rotationPeriod |-> Dec(44, 100)],
     uranus  |-> [orbitalPeriod |-> Dec(3068715, 100), rotationPeriod |-> Dec(72, 100)],
     neptune |-> [orbitalPeriod |-> Dec(6019003, 100), rotationPeriod |-> Dec(67, 100)],
     pluto   |-> [orbitalPeriod |-> Dec(9056073, 100), rotationPeriod |-> Dec(-64, 10)]]

SecondsPerDay == 86400
TimeScale == 300

----------------------------------------------------------------------------
(* Construction *)

\* new THREE.Vector3(): the position of a fresh mesh
Origin == [kind |-> "origin", orbit |-> "", index |-> 0, finite |-> TRUE]
\* what Vector3.set(undefined, undefined, undefined) leaves
Undefined == [kind |-> "undefined", orbit |-> "", index |-> 0, finite |-> FALSE]

\* createOrbit: the BufferGeometry of the orbit of `name`.  b = a * Math.sqrt(1 - e*e)
\* is NaN when 1 - e*e < 0, and then so is a coordinate of every point.
createOrbit(name, e) ==
    [owner  |-> name,
     count  |-> Divisions + 1,
     finite |-> ~SqrtIsNaN(Sub(Int2Num(1), Mul(e, e)))]

\* new THREE.Mesh(...): position (0,0,0), rotation (0,0,0)
Mesh == [position |-> Origin, rotation |-> [x |-> Int2Num(0), y |-> Int2Num(0)]]

\* sets the axial tilt of the planet (body, tilt in degrees)
setTilt(body, tilt) ==
    [body EXCEPT !.rotation.x = Add(@, degToRad(tilt))]

createRing == Mesh

\* createPlanet: the system it returns
createPlanet(name, orbitParameters, axialTilt, ringRadii) ==
    LET planet == setTilt(Mesh, axialTilt)
        orbit  == createOrbit(name, orbitParameters.e)
        ring   == [createRing EXCEPT !.rotation.x =
                       Add(@, Add(Mul(Dec(5, 10), Pi),
                                  Mul(axialTilt, Div(Pi, Int2Num(180)))))]
    IN  IF ringRadii
        THEN [planet |-> planet, orbit |-> orbit, ring |-> ring]
        ELSE [planet |-> planet, orbit |-> orbit]

\* createPlanet: what it adds to the scene (scene.add at lines 106, 82, 123)
createPlanetAdds(name, ringRadii) ==
    {<<"planet", name>>, <<"orbit", name>>}
        \cup (IF ringRadii THEN {<<"ring", name>>} ELSE {})

\* scene.add(sun); scene.add(pointLight)
SceneBase == {<<"sun", "sun">>, <<"light", "pointLight">>}

----------------------------------------------------------------------------
(* updateSystemPosition *)

hasRing(system) == "ring" \in DOMAIN system

\* the factor with the orbital period left out: (2 * Math.PI) / 86400 * 300
timeConversionFactorNoPeriod(orbitalPeriod) ==
    Mul(Mul(Int2Num(2), Pi),
        Div(Int2Num(TimeScale), Int2Num(SecondsPerDay)))

\* ( (2 * Math.PI) / (orbitalPeriod * 86400) ) * 300, grouped as
\* ((2 * Math.PI) / orbitalPeriod) * (300 / 86400) to stay within TLC's integers
timeConversionFactor(orbitalPeriod) ==
    Mul(Div(Mul(Int2Num(2), Pi), orbitalPeriod),
        Div(Int2Num(TimeScale), Int2Num(SecondsPerDay)))

\* the index advanced by the time elapsed since the previous clock reading
pointIndexElapsed(orbit, orbitalPeriod, clock) ==
    LET time == Mul(Sub(clock, now),
                    Mul(Div(Mul(Int2Num(2), Pi), orbitalPeriod),
                        Div(Int2Num(TimeScale), Int2Num(SecondsPerDay))))
    IN  Floor(Mul(Mod1(time), Int2Num(orbit.count - 1)))

\* the index scaled by position.count instead of position.count - 1
pointIndexCount(orbit, orbitalPeriod, clock) ==
    LET time == Mul(clock,
                    Mul(Div(Mul(Int2Num(2), Pi), orbitalPeriod),
                        Div(Int2Num(TimeScale), Int2Num(SecondsPerDay))))
    IN  Floor(Mul(Mod1(time), Int2Num(orbit.count)))

\* Math.floor((time % 1) * (position.count - 1)) with time = performance.now() * factor
pointIndex(orbit, orbitalPeriod, clock) ==
    LET time == Mul(clock, timeConversionFactor(orbitalPeriod))
    IN  Floor(Mul(Mod1(time), Int2Num(orbit.count - 1)))

\* position.getX/getY/getZ(index): the point at index, undefined outside the array
getPoint(orbit, index) ==
    IF index.k = "fin" /\ index.d = 1 /\ index.n \in 0..(orbit.count - 1)
    THEN [kind |-> "point", orbit |-> orbit.owner, index |-> index.n, finite |-> orbit.finite]
    ELSE Undefined

\* the step with the sign of the rotation period lost
spinStepUnsigned(rotationPeriod) ==
    Mul(Mul(Div(Mul(Int2Num(2), Pi), [rotationPeriod EXCEPT !.n = Abs(@)]), Dec(1, 10)),
        Div(Pi, Int2Num(180)))

\* rotationPeriod = (2 * Math.PI) / rotationPeriod * 0.1; the step is
\* rotationPeriod * (Math.PI / 180)
spinStep(rotationPeriod) ==
    Mul(Mul(Div(Mul(Int2Num(2), Pi), rotationPeriod), Dec(1, 10)),
        Div(Pi, Int2Num(180)))

\* updateSystemPosition without the ring branch's ring.position.set
updateSystemPositionRingLeft(system, orbitalPeriod, rotationPeriod, clock) ==
    LET point == getPoint(system.orbit, pointIndex(system.orbit, orbitalPeriod, clock))
        step  == spinStep(rotationPeriod)
        s1    == [system EXCEPT !.planet.position = point,
                                !.planet.rotation.y = Add(@, step)]
    IN  IF hasRing(system)
        THEN [s1 EXCEPT !.planet.rotation.y = Add(@, step)]
        ELSE s1

\* updateSystemPosition without the ring branch's second spin step
updateSystemPositionSingleSpin(system, orbitalPeriod, rotationPeriod, clock) ==
    LET point == getPoint(system.orbit, pointIndex(system.orbit, orbitalPeriod, clock))
        step  == spinStep(rotationPeriod)
        s1    == [system EXCEPT !.planet.position = point,
                                !.planet.rotation.y = Add(@, step)]
    IN  IF hasRing(system)
        THEN [s1 EXCEPT !.ring.position = point]
        ELSE s1

\* the system after updateSystemPosition(system, orbitalPeriod, rotationPeriod)
\* whose performance.now() returned clock
updateSystemPosition(system, orbitalPeriod, rotationPeriod, clock) ==
    LET point == getPoint(system.orbit, pointIndex(system.orbit, orbitalPeriod, clock))
        step  == spinStep(rotationPeriod)
        s1    == [system EXCEPT !.planet.position = point,
                                !.planet.rotation.y = Add(@, step)]
    IN  IF hasRing(system)
        THEN [s1 EXCEPT !.ring.position = point,
                        !.planet.rotation.y = Add(@, step)]
        ELSE s1

----------------------------------------------------------------------------
(* The program: construction (lines 203-217), then the frame loop *)

\* animate with the venus call lost and the earth call made twice
animateCallsVenusLost ==
    <<"mercury", "earth", "earth", "mars", "ceres",
      "jupiter", "saturn", "uranus", "neptune", "pluto">>

\* the bodies animate updates, in the order of its calls (lines 239-256)
animateCalls == Bodies

\* the values performance.now() returns in the frame loop
ClockReadings == {Int2Num(k * ClockStepMs) : k \in 0..MaxClockSteps}

Init ==
    /\ scene = SceneBase \cup UNION {createPlanetAdds(b, PlanetTable[b].ringRadii) : b \in BodyNames}
    /\ systems = [b \in BodyNames |->
                    createPlanet(b, PlanetTable[b], PlanetTable[b].axialTilt,
                                 PlanetTable[b].ringRadii)]
    /\ now = Int2Num(0)
    /\ pc = 0
    /\ frame = 0
    /\ calls = [b \in BodyNames |-> 0]
    /\ lastCall = [b \in BodyNames |-> <<>>]
    /\ rendered = <<>>
    /\ samples = <<>>
    /\ config = [b \in BodyNames |-> PlanetTable[b]]

\* one updateSystemPosition(b, orbitalPeriod, rotationPeriod) call that reads clock
Update(b, orbitalPeriod, rotationPeriod, clock) ==
    /\ now' = clock
    /\ systems' = [systems EXCEPT ![b] =
                      updateSystemPosition(@, orbitalPeriod, rotationPeriod, clock)]
    /\ calls' = [calls EXCEPT ![b] = @ + 1]
    /\ lastCall' = [lastCall EXCEPT ![b] =
                      <<[orbitalPeriod  |-> orbitalPeriod,
                         rotationPeriod |-> rotationPeriod,
                         clock          |-> clock,
                         index          |-> pointIndex(systems[b].orbit, orbitalPeriod, clock)]>>]

\* animate is entered: requestAnimationFrame(animate); controls.update(0.05)
AnimateEnter ==
    /\ pc = 0
    /\ frame < MaxFrames
    /\ pc' = 1
    /\ UNCHANGED <<scene, systems, now, frame, calls, lastCall, rendered, samples, config>>

\* the pc-th updateSystemPosition call of animate; the clock does not run backwards
AnimateUpdate ==
    /\ pc \in 1..Len(animateCalls)
    /\ \E clock \in ClockReadings :
          /\ ~Less(clock, now)
          /\ Update(animateCalls[pc], UpdateTable[animateCalls[pc]].orbitalPeriod,
                    UpdateTable[animateCalls[pc]].rotationPeriod, clock)
    /\ pc' = pc + 1
    /\ UNCHANGED <<scene, frame, rendered, samples, config>>

\* renderer.render(scene, camera), the last statement of animate
Render ==
    /\ pc = Len(animateCalls) + 1
    /\ rendered' = <<[transforms |-> systems, calls |-> calls]>>
    /\ frame' = frame + 1
    /\ pc' = 0
    /\ UNCHANGED <<scene, systems, now, calls, lastCall, samples, config>>

Next == AnimateEnter \/ AnimateUpdate \/ Render

Spec == Init /\ [][Next]_vars

----------------------------------------------------------------------------
(* Properties of the frame loop *)

AboutToRender == pc = Len(animateCalls) + 1

\* C1: in every frame each created body is updated exactly once, and all of the
\* updates come before that frame's render: when render number frame + 1 is
\* about to run every body has had frame + 1 updates, each render saw exactly
\* one more update of every body than the render before it, and in between no
\* body is ahead by more than the one update of the running frame.
C1_EachBodyOncePerFrame ==
    /\ \A b \in DOMAIN systems : calls[b] \in {frame, frame + 1}
    /\ AboutToRender => \A b \in DOMAIN systems : calls[b] = frame + 1
    /\ pc = 0 => \A b \in DOMAIN systems : calls[b] = frame
    /\ rendered # <<>> => \A b \in DOMAIN systems : rendered[1].calls[b] = frame

C1_Witness ==
    /\ frame = 2
    /\ \A b \in BodyNames : rendered[1].calls[b] = 2

\* C3: the clock is read once per frame: when the frame is rendered every
\* body's position was computed from the same clock reading.
C3_OneClockReadingPerFrame ==
    AboutToRender =>
        \A a, b \in DOMAIN systems : lastCall[a][1].clock = lastCall[b][1].clock

\* C4: the ring of a ringed body is where the body is, at startup (both at the
\* origin) and after every update, in every state the renderer can observe.
C4_RingMirrorsBody ==
    /\ \A b \in DOMAIN systems :
          hasRing(systems[b]) => systems[b].ring.position = systems[b].planet.position
    /\ rendered # <<>> =>
          \A b \in DOMAIN systems :
              hasRing(rendered[1].transforms[b]) =>
                  rendered[1].transforms[b].ring.position
                      = rendered[1].transforms[b].planet.position

C4_Witness ==
    /\ hasRing(systems["saturn"])
    /\ rendered # <<>>
    /\ systems["saturn"].ring.position.kind = "point"
    /\ systems["saturn"].ring.position.index = 2
    /\ rendered[1].transforms["saturn"].ring.position.index = 1

\* C6: from one rendered frame to the next the spin angle of a body with a
\* negative rotation period decreases strictly and that of a body with a
\* positive rotation period increases strictly.
C6_SpinDirection ==
    (AboutToRender /\ rendered # <<>>) =>
        \A b \in DOMAIN systems :
            LET before == rendered[1].transforms[b].planet.rotation.y
                after  == systems[b].planet.rotation.y
            IN  /\ Less(UpdateTable[b].rotationPeriod, Int2Num(0)) => Less(after, before)
                /\ Less(Int2Num(0), UpdateTable[b].rotationPeriod) => Less(before, after)

C6_Witness ==
    /\ AboutToRender
    /\ frame = 1
    /\ Less(systems["venus"].planet.rotation.y,
            rendered[1].transforms["venus"].planet.rotation.y)
    /\ Less(systems["pluto"].planet.rotation.y,
            rendered[1].transforms["pluto"].planet.rotation.y)
    /\ Less(rendered[1].transforms["earth"].planet.rotation.y,
            systems["earth"].planet.rotation.y)

\* C10: the spin angle is the number of update calls times the step
\* d = (2 pi / rotationPeriod) * 0.1 * (pi / 180), twice that for a ringed body,
\* whatever the clock readings were; the tilt of the body and the rotation of
\* the ring stay as createPlanet set them.
C10_SpinIsCallCount ==
    \A b \in DOMAIN systems :
        LET d == spinStep(UpdateTable[b].rotationPeriod)
            k == IF hasRing(systems[b]) THEN 2 * calls[b] ELSE calls[b]
            made == createPlanet(b, config[b], config[b].axialTilt, config[b].ringRadii)
        IN  /\ systems[b].planet.rotation.y = Mul(Int2Num(k), d)
            /\ systems[b].planet.rotation.x = made.planet.rotation.x
            /\ hasRing(systems[b]) => systems[b].ring.rotation = made.ring.rotation

C10_Witness ==
    /\ calls["saturn"] = 2
    /\ calls["earth"] = 2
    /\ systems["saturn"].planet.rotation.y = Mul(Int2Num(4), spinStep(Dec(44, 100)))
    /\ systems["earth"].planet.rotation.y = Mul(Int2Num(2), spinStep(Dec(1, 1)))
    /\ lastCall["earth"][1].clock # lastCall["saturn"][1].clock

----------------------------------------------------------------------------
(* The sampler on its own: updateSystemPosition called on one of the created *)
(* systems with chosen clock readings, in any order                          *)

\* number of calls made on the system
MaxSamples == 3

\* the clock interval after which the phase performance.now() * timeConversionFactor
\* has grown by exactly 1: orbitalPeriod * 86400 / (300 * 2 pi)
FullCycle(orbitalPeriod) ==
    Div(Mul(orbitalPeriod, Div(Int2Num(SecondsPerDay), Int2Num(TimeScale))),
        Mul(Int2Num(2), Pi))

\* orbitalPeriod * 86400 / 300 * 2 pi
ClaimedCycle(orbitalPeriod) ==
    Mul(Mul(orbitalPeriod, Div(Int2Num(SecondsPerDay), Int2Num(TimeScale))),
        Mul(Int2Num(2), Pi))

\* the bodies sampled one ClaimedCycle apart, and those sampled 1 ms before the
\* end of a cycle (the products of the others leave TLC's integers there)
ShortYear == {"mercury", "venus", "earth"}
WrapSampled == BodyNames \ {"neptune", "pluto"}

SampleClocks(b) ==
    LET base  == {Int2Num(0), Int2Num(ClockStepMs)}
        P     == UpdateTable[b].orbitalPeriod
    IN  base
        \cup {Add(t, FullCycle(P)) : t \in base}
        \cup (IF b \in WrapSampled THEN {Sub(FullCycle(P), Int2Num(1))} ELSE {})
        \cup (IF b \in ShortYear THEN {Add(t, ClaimedCycle(P)) : t \in base} ELSE {})

Sample ==
    /\ Len(samples) < MaxSamples
    /\ \E b \in BodyNames :
          /\ samples # <<>> => samples[1].body = b
          /\ \E clock \in SampleClocks(b) :
                /\ Update(b, UpdateTable[b].orbitalPeriod,
                          UpdateTable[b].rotationPeriod, clock)
                /\ samples' = Append(samples,
                                 [body     |-> b,
                                  clock    |-> clock,
                                  index    |-> lastCall'[b][1].index,
                                  position |-> systems'[b].planet.position])
    /\ UNCHANGED <<scene, pc, frame, rendered, config>>

SampleNext == Sample

SpecSample == Init /\ [][SampleNext]_vars

\* C2: the position an update writes depends on the clock reading alone: two
\* calls on a body that read the same clock value select the same index and
\* write the same position, whatever calls were made in between.
C2_PositionIsFunctionOfClock ==
    \A i, j \in 1..Len(samples) :
        (samples[i].body = samples[j].body /\ samples[i].clock = samples[j].clock)
            => /\ samples[i].index = samples[j].index
               /\ samples[i].position = samples[j].position

C2_Witness ==
    /\ Len(samples) = 3
    /\ samples[1].clock = samples[3].clock
    /\ samples[2].clock # samples[1].clock
    /\ samples[2].position # samples[1].position
    /\ samples[3].position = samples[1].position
    /\ samples[1].position.index > 0

\* C5: the index an update computes lies in 0..N-2 for the N points of the
\* body's orbit, so the last point is never selected, and the position written
\* is the point of the body's own orbit at that index.
C5_IndexInRange ==
    /\ \A i \in 1..Len(samples) :
          LET s == samples[i]
              N == systems[s.body].orbit.count
          IN  /\ s.index.k = "fin" /\ s.index.d = 1
              /\ s.index.n \in 0..(N - 2)
              /\ s.position = [kind |-> "point", orbit |-> s.body,
                               index |-> s.index.n, finite |-> TRUE]
    /\ \A b \in DOMAIN systems :
          \/ calls[b] = 0 /\ systems[b].planet.position = Origin
          \/ /\ calls[b] > 0
             /\ systems[b].planet.position.kind = "point"
             /\ systems[b].planet.position.orbit = systems[b].orbit.owner
             /\ systems[b].planet.position.index \in 0..(systems[b].orbit.count - 2)

C5_Witness ==
    /\ samples # <<>>
    /\ samples[1].clock = Sub(FullCycle(UpdateTable[samples[1].body].orbitalPeriod), Int2Num(1))
    /\ samples[1].index.n = systems[samples[1].body].orbit.count - 2

\* C9 as stated: updates of a body at t and at
\* t + orbitalPeriod * 86400 / 300 * 2 pi select the same index (stated of the
\* bodies sampled that far apart).
C9_ClaimedPeriodicity ==
    \A i, j \in 1..Len(samples) :
        (/\ samples[i].body = samples[j].body
         /\ samples[i].body \in ShortYear
         /\ Sub(samples[j].clock, samples[i].clock)
                = ClaimedCycle(UpdateTable[samples[i].body].orbitalPeriod))
            => samples[i].index = samples[j].index

\* C9 amended: updates of a body at t and at
\* t + orbitalPeriod * 86400 / (300 * 2 pi), where the phase has grown by
\* exactly 1, select the same index and write the same position.
C9_FullCyclePeriodicity ==
    \A i, j \in 1..Len(samples) :
        (/\ samples[i].body = samples[j].body
         /\ Sub(samples[j].clock, samples[i].clock)
                = FullCycle(UpdateTable[samples[i].body].orbitalPeriod))
            => /\ samples[i].index = samples[j].index
               /\ samples[i].position = samples[j].position

C9_Witness ==
    /\ Len(samples) >= 2
    /\ samples[1].clock = Int2Num(ClockStepMs)
    /\ samples[2].clock = Add(samples[1].clock,
                              FullCycle(UpdateTable[samples[1].body].orbitalPeriod))
    /\ samples[2].index = samples[1].index
    /\ samples[1].index.n > 0

----------------------------------------------------------------------------
(* createPlanet and updateSystemPosition called with arguments outside the *)
(* program's tables                                                        *)

\* number of updateSystemPosition calls made on a created system
MaxTestCalls == 2

TestNames == {"probe"}
TestEccentricities == {Dec(0, 1), Dec(1, 2), Dec(1, 1), Dec(3, 2)}
TestPeriods == {Dec(0, 1), Dec(1, 1), Dec(-243, 1)}
TestClocks == {Int2Num(0), Int2Num(ClockStepMs)}

CreateInit ==
    /\ scene = SceneBase
    /\ systems = [b \in {} |-> 0]
    /\ now = Int2Num(0)
    /\ pc = 0
    /\ frame = 0
    /\ calls = [b \in {} |-> 0]
    /\ lastCall = [b \in {} |-> <<>>]
    /\ rendered = <<>>
    /\ samples = <<>>
    /\ config = [b \in {} |-> 0]

\* const name = createPlanet(name, radius, {e: e, ...}, axialTilt, ringRadii)
Create ==
    \E name \in TestNames, e \in TestEccentricities, ringRadii \in BOOLEAN :
        LET args == [e |-> e, axialTilt |-> Dec(2673, 100), ringRadii |-> ringRadii]
        IN  /\ name \notin DOMAIN config
            /\ config' = (name :> args) @@ config
            /\ scene' = scene \cup createPlanetAdds(name, ringRadii)
            /\ systems' = (name :> createPlanet(name, args, args.axialTilt, ringRadii)) @@ systems
            /\ calls' = (name :> 0) @@ calls
            /\ lastCall' = (name :> <<>>) @@ lastCall
            /\ UNCHANGED <<now, pc, frame, rendered, samples>>

\* updateSystemPosition(name, orbitalPeriod, rotationPeriod)
TestUpdate ==
    /\ \E b \in DOMAIN systems, orbitalPeriod \in TestPeriods,
          rotationPeriod \in TestPeriods, clock \in TestClocks :
          /\ calls[b] < MaxTestCalls
          /\ ~Less(clock, now)
          /\ Update(b, orbitalPeriod, rotationPeriod, clock)
    /\ UNCHANGED <<scene, pc, frame, rendered, samples, config>>

CreateNext == Create \/ TestUpdate

SpecCreate == CreateInit /\ [][CreateNext]_vars

\* C7: a createPlanet call with eccentricity >= 1 is rejected: it returns no
\* system (no orbit path), and adds neither a body nor an orbit to the scene.
C7_EccentricityRejected ==
    \A b \in DOMAIN config :
        ~Less(config[b].e, Int2Num(1)) =>
            /\ b \notin DOMAIN systems
            /\ <<"planet", b>> \notin scene
            /\ <<"orbit", b>> \notin scene

\* C8: no update call runs with an orbital or a rotation period of 0, and no
\* update of a system whose orbit is finite writes a non-finite index, position
\* or spin angle.
C8_ZeroPeriodRejected ==
    \A b \in DOMAIN systems :
        lastCall[b] # <<>> =>
            /\ lastCall[b][1].orbitalPeriod # Int2Num(0)
            /\ lastCall[b][1].rotationPeriod # Int2Num(0)
            /\ systems[b].orbit.finite =>
                  /\ IsFinite(lastCall[b][1].index)
                  /\ systems[b].planet.position.finite
                  /\ IsFinite(systems[b].planet.rotation.y)

====
